---- MODULE Spec2Model ----
(***************************************************************************)
(* getpack: the resource cache of src/getpack/resource.py.                 *)
(*                                                                         *)
(* One identity path  local_base/local_prefix/name/version  shared by      *)
(* several processes.  The model holds the directory tree under the parent *)
(* of that path (the canonical directory, the staging directories and the  *)
(* lock file), the HybridLock of every process, the in-process flags of    *)
(* the descriptors and the position of every thread inside provide(),      *)
(* deploy(), cleanup() and activate().                                      *)
(***************************************************************************)
EXTENDS Integers, FiniteSets, Sequences, TLC

\* Threads 1 and 2 live in process 1, thread 3 in process 2.
Threads == {1, 2, 3}
Procs == {1, 2}
ProcOf(t) == IF t = 3 THEN 2 ELSE 1

\* Calls the callers may issue, all threads together, when they call
\* concurrently and when they call one at a time.
MaxCalls == 3
MaxSeqCalls == 4
\* Processes that may be killed.
MaxKills == 1
\* range(100) of deploy()'s staging-name loop.
TempAttempts == 100

\* Draws of deploy()'s staging-name loop that may name an existing directory.
MaxCollisions == 1
\* file_lock.acquire() calls that may raise.
MaxAcquireFailures == 2

\* The random staging names '{:020x}.temp' drawn by deploy(); 0 is no name
\* (temp_path = None).
TempStems == {1, 2, 3}
\* The files of the artifact that _deploy_to writes, in order.
Files == {1, 2}
Platforms == {"posix", "win32"}

\* A directory entry name, split in stem and extension.
VersionName == [stem |-> "1.0", ext |-> ""]
LockName == [stem |-> "1.0", ext |-> ".lock"]
StemText == <<"00a", "00b", "00c">>
TempName(s) == [stem |-> StemText[s], ext |-> ".temp"]

NoDir == [ex |-> FALSE, files |-> {}, by |-> 0]
EmptyDir(t) == [ex |-> TRUE, files |-> {}, by |-> t]
FullDir == [ex |-> TRUE, files |-> Files, by |-> 0]

VARIABLES
    mode,       \* "par": the callers call concurrently; "prov": they call
                \* provide() only; "seq": they call one at a time; "lock":
                \* they call concurrently and file_lock.acquire() may raise;
                \* "reg": they call on packages with their own identity paths;
                \* "pkg", "rel", "arc": one caller works on packages with
                \* requirements, on release selection, on extraction
    platform,   \* sys.platform of the machine
    parent,     \* path.parent is a directory
    canon,      \* the canonical directory at path
    temps,      \* the staging directories under path.parent, by stem
    lockPath,   \* inode the lock file name points to, 0 when there is no file
    fd,         \* per process: inode file_lock has open, 0 when closed
    flocked,    \* per process: file_lock holds the OS-level lock on fd
    rowner,     \* per process: thread owning HybridLock.lock (the RLock), 0 if free
    rdepth,     \* per process: recursion depth of the RLock
    counter,    \* per process: HybridLock.counter
    pc,         \* per thread: position in the code, "ret" when a call has just ended
    stk,        \* per thread: continuations of the calls in progress, the call issued last
    exc,        \* per thread: the exception that is propagating or that ended
                \* the call, "none" when there is none
    calls,      \* calls issued so far
    avail,      \* per thread: _available of the thread's descriptor
    activated,  \* per thread: _activated of the thread's descriptor
    tmp,        \* per thread: temp_path of deploy(), 0 for None
    tries,      \* per thread: iterations done of the staging-name loop
    kills,      \* processes killed so far
    collisions, \* draws that named an existing directory so far
    afails,     \* file_lock.acquire() calls that raised so far
    deploys,    \* history: deploy() calls that published (0, 1, 2 for more)
    stable,     \* history (mode "seq"): a provide() returned normally and no cleanup() ran since
    fresh,      \* per thread: history, its provide() was issued while stable
    since,      \* per thread: history, a rename published since the thread's cleanup removed
    \* PythonPackage descriptors with requirements, one caller
    pkgs,       \* per package: name given, cache entry present, _available,
                \* _activated, __import__ calls of activate() that succeeded,
                \* activate() calls that returned normally
    frames,     \* the calls in progress, the innermost first
    raised,     \* the exception that ended the call, "none" when there is none
    pcall,      \* the call the caller issued last and whether it has ended
    pkgCalls,   \* calls issued so far
    touched,    \* packages whose cache entry the call issued last worked on
    \* PyPiPackage.release_info / archive_url
    releases,   \* data['releases'][self.version] as PyPI answers
    releaseInfo,\* _release_info, "None" until resolved
    archiveUrl, \* _archive_url, "" until cached
    relExc,     \* the exception that ended the resolution
    \* ArchivedResource._deploy_to
    archive,    \* extractor.get_file_list()
    extraction, \* archive_extraction, the (key, path) pairs in order
    pos,        \* files of the archive gone through so far
    dest,       \* files written under the destination path
    arcExc,     \* the exception that ended the extraction
    wk,         \* per thread: position, identity paths still to provide,
                \* the current one, the lock object lock() returned, depth
                \* of with blocks, pending exception, result of the last call
    regMutex,   \* per process: the thread in `with _locks[None]`, or 0
    registry,   \* per process: _locks, the lock object of each key, or 0
    insts,      \* per process: HybridLock objects constructed
    given,      \* per process and key: the lock objects lock() has returned
    hl,         \* per process and lock object: RLock owner and depth, counter
    fh,         \* per key: the process holding the lock file, or 0
    spath,      \* per process: sys.path, the identity paths in it
    regCalls,   \* calls issued on the packages
    rfails      \* file_lock.acquire() calls that raised

mainVars == <<parent, canon, temps, lockPath, fd, flocked,
              rowner, rdepth, counter, pc, stk, exc, calls, avail,
              activated, tmp, tries, kills, collisions, afails, deploys,
              stable, fresh, since>>
pkgVars == <<pkgs, frames, raised, pcall, pkgCalls, touched>>
relVars == <<releases, releaseInfo, archiveUrl, relExc>>
arcVars == <<archive, extraction, pos, dest, arcExc>>
regVars == <<wk, regMutex, registry, insts, given, hl, fh, spath, regCalls,
             rfails>>
sideVars == <<pkgVars, relVars, arcVars, regVars>>
vars == <<mode, platform, mainVars, sideVars>>

fsVars == <<parent, canon, temps>>
lockFileVars == <<lockPath, fd, flocked>>
rlockVars == <<rowner, rdepth, counter>>
flagVars == <<avail, activated>>
envVars == <<kills, collisions, afails>>
histVars == <<deploys, stable, fresh, since>>
ctlVars == <<pc, stk, exc>>

Range(s) == {s[i] : i \in 1..Len(s)}

\* Steps that read and write nothing another thread can see, or that only
\* release (the RLock, the OS-level lock): they commute with the steps of the
\* other threads, so a thread at one of them takes it before any other thread
\* moves. So does a thread inside the staging-name loop of deploy(): a draw
\* that names an existing directory changes nothing, so the draws of one loop
\* can all be taken at the time of its last one. Every other step interleaves
\* freely.
LocalLabels == {"prov", "prov_mark", "dep", "cln", "cln_flag", "act",
                "act_import", "lk_mkdirs", "lk_exit", "lk_rrel", "ret"}
Local(u) ==
    \/ pc[u] \in LocalLabels
    \/ pc[u] = "lk_enter" /\ rowner[ProcOf(u)] = u
    \/ pc[u] = "dep_pick" /\ tries[u] > 0
Turn(t) == \A u \in Threads \ {t} : ~Local(u)

\* No other call is in progress.
Quiet(t) == \A u \in Threads \ {t} : pc[u] \in {"idle", "dead"}

----------------------------------------------------------------------------
\* LocalResource.get_available_versions

Children ==
    (IF canon.ex THEN {VersionName} ELSE {})
        \cup (IF lockPath # 0 THEN {LockName} ELSE {})
        \cup {TempName(s) : s \in {x \in TempStems : temps[x].ex}}

GetAvailableVersions ==
    IF ~parent THEN {} ELSE {n \in Children : n.ext # ".temp"}

----------------------------------------------------------------------------
\* Control transfer: calls, returns and exception propagation.

Goto(t, l) ==
    /\ pc' = [pc EXCEPT ![t] = l]
    /\ UNCHANGED <<stk, exc>>

\* Call a function at label l, to continue at label k when it returns.
CallTo(t, l, k) ==
    /\ pc' = [pc EXCEPT ![t] = l]
    /\ stk' = [stk EXCEPT ![t] = <<k>> \o stk[t]]
    /\ UNCHANGED exc

\* Return to the caller; the bottom of the stack names the call the caller
\* issued, which ends at "ret".
Return(t) ==
    IF Len(stk[t]) = 1
    THEN /\ pc' = [pc EXCEPT ![t] = "ret"]
         /\ UNCHANGED <<stk, exc>>
    ELSE /\ pc' = [pc EXCEPT ![t] = Head(stk[t])]
         /\ stk' = [stk EXCEPT ![t] = Tail(stk[t])]
         /\ UNCHANGED exc

\* Where an exception that leaves the frames s lands: the `with self.lock:` of
\* provide() (continuation "prov_mark") runs __exit__; no other frame of the
\* call chain has a handler (deploy() calls cleanup() before its try).
RECURSIVE Unwind(_)
Unwind(s) ==
    IF Len(s) = 1 THEN [pc |-> "ret", stk |-> s]
    ELSE IF Head(s) = "prov_mark"
         THEN [pc |-> "lk_exit", stk |-> Tail(s)]
         ELSE Unwind(Tail(s))

\* An exception propagates out of the current function into the frames s.
Raise(t, s, e) ==
    LET u == Unwind(s) IN
    /\ pc' = [pc EXCEPT ![t] = u.pc]
    /\ stk' = [stk EXCEPT ![t] = u.stk]
    /\ exc' = [exc EXCEPT ![t] = e]

\* An exception raised inside the `with self.lock:` of cleanup().
RaiseInWith(t, e) ==
    /\ pc' = [pc EXCEPT ![t] = "lk_exit"]
    /\ exc' = [exc EXCEPT ![t] = e]
    /\ UNCHANGED stk

\* An exception raised inside the try of deploy(): the except clause runs.
RaiseInTry(t, e) ==
    /\ pc' = [pc EXCEPT ![t] = "dep_except"]
    /\ exc' = [exc EXCEPT ![t] = e]
    /\ UNCHANGED stk

----------------------------------------------------------------------------
\* HybridLock

\* fasteners.InterProcessLock: the OS-level lock on inode i is free for p.
FlockFree(p, i) == \A q \in Procs \ {p} : ~(fd[q] = i /\ flocked[q])

\* Inode numbers: a number no name and no open file refers to is free again.
Inodes == 1..(Cardinality(Procs) + 1)
FreeInode ==
    CHOOSE i \in Inodes : i # lockPath /\ \A q \in Procs : fd[q] # i

\* os.unlink(self.key) removes the name: always on posix, and on win32 only
\* while no process has the file open.
UnlinkSucceeds ==
    /\ lockPath # 0
    /\ platform = "win32" => \A q \in Procs : fd[q] # lockPath

\* __enter__: self.lock.acquire(); self.counter += 1; if self.counter == 1
LkEnter(t) ==
    LET p == ProcOf(t) IN
    /\ pc[t] = "lk_enter"
    /\ Turn(t)
    /\ rowner[p] \in {0, t}
    /\ rowner' = [rowner EXCEPT ![p] = t]
    /\ rdepth' = [rdepth EXCEPT ![p] = @ + 1]
    /\ counter' = [counter EXCEPT ![p] = @ + 1]
    /\ IF counter[p] + 1 = 1 THEN Goto(t, "lk_mkdirs") ELSE Return(t)
    /\ UNCHANGED <<mode, platform, sideVars, fsVars, lockFileVars, calls, flagVars, tmp,
                   tries, envVars, histVars>>

\* __enter__: if not os.path.isdir(self.folder): os.makedirs(self.folder)
LkMkdirs(t) ==
    /\ pc[t] = "lk_mkdirs"
    /\ Turn(t)
    /\ parent' = TRUE
    /\ Goto(t, "lk_open")
    /\ UNCHANGED <<mode, platform, sideVars, canon, temps, lockFileVars, rlockVars,
                   calls, flagVars, tmp, tries, envVars, histVars>>

\* Whether file_lock.acquire() may raise here (the rare PermissionError of
\* __enter__'s comment): only where the callers are said to meet it.
AcquireOutcomes ==
    IF mode = "lock" /\ afails < MaxAcquireFailures THEN BOOLEAN ELSE {TRUE}

\* __enter__ that swallows the exception of the second acquire() and goes on
\* into the with block.
LkOpenSwallows(t) ==
    LET p == ProcOf(t) IN
    /\ pc[t] \in {"lk_open", "lk_retry"}
    /\ Turn(t)
    /\ \E ok \in AcquireOutcomes :
        IF ok
        THEN /\ IF lockPath = 0
                THEN /\ lockPath' = FreeInode
                     /\ fd' = [fd EXCEPT ![p] = FreeInode]
                ELSE /\ fd' = [fd EXCEPT ![p] = lockPath]
                     /\ UNCHANGED lockPath
             /\ Goto(t, "lk_try")
             /\ UNCHANGED afails
        ELSE /\ afails' = afails + 1
             /\ UNCHANGED <<lockPath, fd>>
             /\ IF pc[t] = "lk_open" THEN Goto(t, "lk_retry")
                ELSE Return(t)
    /\ UNCHANGED <<mode, platform, sideVars, fsVars, flocked, rlockVars, calls,
                   flagVars, tmp, tries, kills, collisions, histVars>>

\* try: self.file_lock.acquire() except Exception: self.file_lock.acquire()
\* acquire() opens the lock file, creating it when the name is free, or
\* raises: the first time ("lk_open") the except clause calls it again
\* ("lk_retry"), the second time the exception leaves __enter__, and the with
\* statement with it, without __exit__.
LkOpen(t) ==
    LET p == ProcOf(t) IN
    /\ pc[t] \in {"lk_open", "lk_retry"}
    /\ Turn(t)
    /\ \E ok \in AcquireOutcomes :
        IF ok
        THEN /\ IF lockPath = 0
                THEN /\ lockPath' = FreeInode
                     /\ fd' = [fd EXCEPT ![p] = FreeInode]
                ELSE /\ fd' = [fd EXCEPT ![p] = lockPath]
                     /\ UNCHANGED lockPath
             /\ Goto(t, "lk_try")
             /\ UNCHANGED afails
        ELSE /\ afails' = afails + 1
             /\ UNCHANGED <<lockPath, fd>>
             /\ IF pc[t] = "lk_open" THEN Goto(t, "lk_retry")
                ELSE Raise(t, stk[t], "AcquireError")
    /\ UNCHANGED <<mode, platform, sideVars, fsVars, flocked, rlockVars, calls,
                   flagVars, tmp, tries, kills, collisions, histVars>>

\* file_lock.acquire(): poll the OS-level lock until it is gotten.
LkTry(t) ==
    LET p == ProcOf(t) IN
    /\ pc[t] = "lk_try"
    /\ Turn(t)
    /\ FlockFree(p, fd[p])
    /\ flocked' = [flocked EXCEPT ![p] = TRUE]
    /\ Return(t)
    /\ UNCHANGED <<mode, platform, sideVars, fsVars, lockPath, fd, rlockVars, calls,
                   flagVars, tmp, tries, envVars, histVars>>

\* __exit__: self.counter -= 1; if not self.counter: self.file_lock.release()
LkExit(t) ==
    LET p == ProcOf(t) IN
    /\ pc[t] = "lk_exit"
    /\ Turn(t)
    /\ counter' = [counter EXCEPT ![p] = @ - 1]
    /\ IF counter[p] - 1 = 0
       THEN /\ flocked' = [flocked EXCEPT ![p] = FALSE]
            /\ fd' = [fd EXCEPT ![p] = 0]
            /\ Goto(t, "lk_unlink")
       ELSE /\ UNCHANGED <<flocked, fd>>
            /\ Goto(t, "lk_rrel")
    /\ UNCHANGED <<mode, platform, sideVars, fsVars, lockPath, rowner, rdepth, calls,
                   flagVars, tmp, tries, envVars, histVars>>

\* __exit__: try: os.unlink(self.key) except Exception: pass
LkUnlink(t) ==
    /\ pc[t] = "lk_unlink"
    /\ Turn(t)
    /\ lockPath' = IF UnlinkSucceeds THEN 0 ELSE lockPath
    /\ Goto(t, "lk_rrel")
    /\ UNCHANGED <<mode, platform, sideVars, fsVars, fd, flocked, rlockVars, calls,
                   flagVars, tmp, tries, envVars, histVars>>

\* __exit__: self.lock.release(), then the with statement ends.
LkRRelease(t) ==
    LET p == ProcOf(t) IN
    /\ pc[t] = "lk_rrel"
    /\ Turn(t)
    /\ rdepth' = [rdepth EXCEPT ![p] = @ - 1]
    /\ rowner' = [rowner EXCEPT ![p] = IF rdepth[p] = 1 THEN 0 ELSE t]
    /\ IF exc[t] # "none" THEN Raise(t, stk[t], exc[t]) ELSE Return(t)
    /\ UNCHANGED <<mode, platform, sideVars, fsVars, lockFileVars, counter, calls,
                   flagVars, tmp, tries, envVars, histVars>>

----------------------------------------------------------------------------
\* Resource.provide

\* provide(): if self._available: return; with self.lock:
Provide(t) ==
    /\ pc[t] = "prov"
    /\ Turn(t)
    /\ IF avail[t]
       THEN /\ Return(t)
            /\ stable' = (mode = "seq")
       ELSE /\ CallTo(t, "lk_enter", "prov_check")
            /\ UNCHANGED stable
    /\ UNCHANGED <<mode, platform, sideVars, fsVars, lockFileVars, rlockVars, calls,
                   flagVars, tmp, tries, envVars, deploys, fresh, since>>

\* provide(): if self.version in self.get_available_versions(): ... return
\*            self.deploy()
ProvCheck(t) ==
    /\ pc[t] = "prov_check"
    /\ Turn(t)
    /\ IF VersionName \in GetAvailableVersions
       THEN /\ avail' = [avail EXCEPT ![t] = TRUE]
            /\ stable' = (mode = "seq")
            /\ Goto(t, "lk_exit")
       ELSE /\ CallTo(t, "dep", "prov_mark")
            /\ UNCHANGED <<avail, stable>>
    /\ UNCHANGED <<mode, platform, sideVars, fsVars, lockFileVars, rlockVars, calls,
                   activated, tmp, tries, envVars, deploys, fresh, since>>

\* provide(): self._available = True, after deploy() returned
ProvMark(t) ==
    /\ pc[t] = "prov_mark"
    /\ Turn(t)
    /\ avail' = [avail EXCEPT ![t] = TRUE]
    /\ stable' = (mode = "seq")
    /\ Goto(t, "lk_exit")
    /\ UNCHANGED <<mode, platform, sideVars, fsVars, lockFileVars, rlockVars, calls,
                   activated, tmp, tries, envVars, deploys, fresh, since>>

----------------------------------------------------------------------------
\* LocalResource.cleanup

\* cleanup(): with self.lock:
Cleanup(t) ==
    /\ pc[t] = "cln"
    /\ Turn(t)
    /\ CallTo(t, "lk_enter", "cln_isdir")
    /\ stable' = FALSE
    /\ fresh' = [u \in Threads |-> FALSE]
    /\ UNCHANGED <<mode, platform, sideVars, fsVars, lockFileVars, rlockVars, calls,
                   flagVars, tmp, tries, envVars, deploys, since>>

\* cleanup(): if self.path.is_dir():
ClnIsDir(t) ==
    /\ pc[t] = "cln_isdir"
    /\ Turn(t)
    /\ IF canon.ex
       THEN /\ Goto(t, "cln_rm")
            /\ UNCHANGED since
       ELSE /\ Goto(t, "cln_flag")
            /\ since' = [since EXCEPT ![t] = FALSE]
    /\ UNCHANGED <<mode, platform, sideVars, fsVars, lockFileVars, rlockVars, calls,
                   flagVars, tmp, tries, envVars, deploys, stable, fresh>>

\* shutil.rmtree(str(self.path)), first half: the entries of the directory
\* are unlinked; a directory that is gone makes rmtree raise.
ClnRm(t) ==
    /\ pc[t] = "cln_rm"
    /\ Turn(t)
    /\ IF canon.ex
       THEN /\ canon' = [canon EXCEPT !.files = {}]
            /\ Goto(t, "cln_rmdir")
       ELSE /\ UNCHANGED canon
            /\ RaiseInWith(t, "OSError")
    /\ stable' = FALSE
    /\ fresh' = [u \in Threads |-> FALSE]
    /\ UNCHANGED <<mode, platform, sideVars, parent, temps, lockFileVars, rlockVars,
                   calls, flagVars, tmp, tries, envVars, deploys, since>>

\* cleanup() that leaves the emptied canonical directory where it is.
ClnRmdirLeaves(t) ==
    /\ pc[t] = "cln_rmdir"
    /\ Turn(t)
    /\ since' = [since EXCEPT ![t] = FALSE]
    /\ Goto(t, "cln_flag")
    /\ UNCHANGED <<mode, platform, sideVars, fsVars, lockFileVars, rlockVars,
                   calls, flagVars, tmp, tries, envVars, deploys, stable,
                   fresh>>

\* shutil.rmtree(str(self.path)), second half: rmdir of the emptied
\* directory; it raises when the directory is gone or has entries again.
ClnRmdir(t) ==
    /\ pc[t] = "cln_rmdir"
    /\ Turn(t)
    /\ IF canon.ex /\ canon.files = {}
       THEN /\ canon' = NoDir
            /\ since' = [since EXCEPT ![t] = FALSE]
            /\ Goto(t, "cln_flag")
       ELSE /\ UNCHANGED <<canon, since>>
            /\ RaiseInWith(t, "OSError")
    /\ UNCHANGED <<mode, platform, sideVars, parent, temps, lockFileVars, rlockVars,
                   calls, flagVars, tmp, tries, envVars, deploys, stable,
                   fresh>>

\* cleanup(): self._available = False
ClnFlag(t) ==
    /\ pc[t] = "cln_flag"
    /\ Turn(t)
    /\ avail' = [avail EXCEPT ![t] = FALSE]
    /\ Goto(t, "lk_exit")
    /\ UNCHANGED <<mode, platform, sideVars, fsVars, lockFileVars, rlockVars, calls,
                   activated, tmp, tries, envVars, histVars>>

----------------------------------------------------------------------------
\* LocalResource.deploy

\* rename() of the staging directory onto the canonical path fails when the
\* staging directory is gone, and when the target exists: always on win32,
\* on posix unless the target is an empty directory.
RenameSucceeds(s) ==
    /\ temps[s].ex
    /\ canon.ex => (platform = "posix" /\ canon.files = {})

\* deploy(): self.cleanup(); temp_path = None
Deploy(t) ==
    /\ pc[t] = "dep"
    /\ Turn(t)
    /\ CallTo(t, "cln", "dep_pick")
    /\ tmp' = [tmp EXCEPT ![t] = 0]
    /\ tries' = [tries EXCEPT ![t] = 0]
    /\ UNCHANGED <<mode, platform, sideVars, fsVars, lockFileVars, rlockVars, calls,
                   flagVars, envVars, histVars>>

\* The staging names are interchangeable: a draw that names no existing
\* directory is taken to draw the least such name.
FreeStem == CHOOSE s \in TempStems :
    ~temps[s].ex /\ \A r \in TempStems : ~temps[r].ex => s <= r

\* deploy(): for _ in range(100): temp_path = ...random...;
\*           if not temp_path.is_dir(): ... else: raise Exception(...)
DepPick(t) ==
    /\ pc[t] = "dep_pick"
    /\ Turn(t)
    /\ IF tries[t] = TempAttempts
       THEN /\ RaiseInTry(t, "Exception")
            /\ UNCHANGED <<tmp, tries, collisions>>
       ELSE \E s \in TempStems :
            /\ IF temps[s].ex THEN collisions < MaxCollisions
               ELSE s = FreeStem
            /\ tmp' = [tmp EXCEPT ![t] = s]
            /\ tries' = [tries EXCEPT ![t] = @ + 1]
            /\ collisions' = IF temps[s].ex THEN collisions + 1
                             ELSE collisions
            /\ Goto(t, IF temps[s].ex THEN "dep_pick" ELSE "dep_mkdir")
    /\ UNCHANGED <<mode, platform, sideVars, fsVars, lockFileVars, rlockVars, calls,
                   flagVars, kills, afails, histVars>>

\* deploy(): temp_path.mkdir(parents=True); break
DepMkdir(t) ==
    /\ pc[t] = "dep_mkdir"
    /\ Turn(t)
    /\ IF temps[tmp[t]].ex
       THEN /\ RaiseInTry(t, "OSError")
            /\ UNCHANGED <<parent, temps>>
       ELSE /\ temps' = [temps EXCEPT ![tmp[t]] = EmptyDir(t)]
            /\ parent' = TRUE
            /\ Goto(t, "dep_to1")
    /\ tries' = [tries EXCEPT ![t] = 0]
    /\ UNCHANGED <<mode, platform, sideVars, canon, lockFileVars, rlockVars, calls,
                   flagVars, tmp, envVars, histVars>>

\* _deploy_to writes file f under path d; ArchivedResource._deploy_to makes the
\* parent of the file when it is no directory (dest_path.parent.mkdir).
WriteFile(d, f, t) ==
    IF d.ex THEN [d EXCEPT !.files = @ \cup {f}]
    ELSE [ex |-> TRUE, files |-> {f}, by |-> t]

\* deploy(): self._deploy_to(temp_path), one file per step; the download or
\* the extraction may raise at either.
DepTo(t) ==
    /\ pc[t] \in {"dep_to1", "dep_to2"}
    /\ Turn(t)
    /\ \E ok \in BOOLEAN :
        IF ok
        THEN /\ temps' = [temps EXCEPT ![tmp[t]] =
                    WriteFile(@, IF pc[t] = "dep_to1" THEN 1 ELSE 2, t)]
             /\ Goto(t, IF pc[t] = "dep_to1" THEN "dep_to2" ELSE "dep_rename")
        ELSE /\ UNCHANGED temps
             /\ RaiseInTry(t, "DeployToError")
    /\ UNCHANGED <<mode, platform, sideVars, parent, canon, lockFileVars, rlockVars,
                   calls, flagVars, tmp, tries, envVars, histVars>>

\* deploy(): temp_path.rename(self.path)
DepRename(t) ==
    /\ pc[t] = "dep_rename"
    /\ Turn(t)
    /\ IF RenameSucceeds(tmp[t])
       THEN /\ canon' = [temps[tmp[t]] EXCEPT !.by = t]
            /\ temps' = [temps EXCEPT ![tmp[t]] = NoDir]
            /\ since' = [u \in Threads |-> TRUE]
            /\ deploys' = IF deploys < 2 THEN deploys + 1 ELSE deploys
            /\ tmp' = [tmp EXCEPT ![t] = 0]
            /\ Return(t)
       ELSE /\ UNCHANGED <<canon, temps, since, deploys, tmp>>
            /\ RaiseInTry(t, "OSError")
    /\ UNCHANGED <<mode, platform, sideVars, parent, lockFileVars, rlockVars, calls,
                   flagVars, tries, envVars, stable, fresh>>

\* deploy() whose except clause re-raises without removing the staging
\* directory.
DepExceptKeeps(t) ==
    /\ pc[t] = "dep_except"
    /\ Turn(t)
    /\ tmp' = [tmp EXCEPT ![t] = 0]
    /\ tries' = [tries EXCEPT ![t] = 0]
    /\ Raise(t, stk[t], exc[t])
    /\ UNCHANGED <<mode, platform, sideVars, fsVars, lockFileVars, rlockVars,
                   calls, flagVars, envVars, histVars>>

\* deploy(): except Exception: if temp_path and temp_path.is_dir():
\*               shutil.rmtree(str(temp_path)); raise
DepExcept(t) ==
    /\ pc[t] = "dep_except"
    /\ Turn(t)
    /\ temps' = IF tmp[t] # 0 /\ temps[tmp[t]].ex
                THEN [temps EXCEPT ![tmp[t]] = NoDir]
                ELSE temps
    /\ tmp' = [tmp EXCEPT ![t] = 0]
    /\ tries' = [tries EXCEPT ![t] = 0]
    /\ Raise(t, stk[t], exc[t])
    /\ UNCHANGED <<mode, platform, sideVars, parent, canon, lockFileVars, rlockVars,
                   calls, flagVars, envVars, histVars>>

----------------------------------------------------------------------------
\* PythonPackage.activate

\* activate(): if self._activated: return; self.provide()
Activate(t) ==
    /\ pc[t] = "act"
    /\ Turn(t)
    /\ IF activated[t] THEN Return(t) ELSE CallTo(t, "prov", "act_import")
    /\ UNCHANGED <<mode, platform, sideVars, fsVars, lockFileVars, rlockVars, calls,
                   flagVars, tmp, tries, envVars, histVars>>

\* activate(): __import__(self.name), which may raise; self._activated = True
ActImport(t) ==
    /\ pc[t] = "act_import"
    /\ Turn(t)
    /\ \E ok \in BOOLEAN :
        IF ok
        THEN /\ activated' = [activated EXCEPT ![t] = TRUE]
             /\ Return(t)
        ELSE /\ UNCHANGED activated
             /\ Raise(t, stk[t], "ImportError")
    /\ UNCHANGED <<mode, platform, sideVars, fsVars, lockFileVars, rlockVars, calls,
                   avail, tmp, tries, envVars, histVars>>

----------------------------------------------------------------------------
\* The callers

Ops == {"provide", "cleanup", "deploy", "activate"}
Entry(o) ==
    CASE o = "provide" -> "prov"
      [] o = "cleanup" -> "cln"
      [] o = "deploy" -> "dep"
      [] o = "activate" -> "act"

\* What the callers call in each mode.
CallerOps ==
    CASE mode = "seq" -> Ops
      [] mode = "par" -> {"provide", "cleanup", "deploy"}
      [] mode = "prov" -> {"provide"}
      [] mode = "lock" -> {"provide", "cleanup"}

\* A caller issues a call on the thread's descriptor.
Call(t) ==
    /\ pc[t] = "idle"
    /\ Turn(t)
    /\ IF mode = "seq" THEN Quiet(t) /\ calls < MaxSeqCalls
       ELSE calls < MaxCalls
    /\ \E o \in CallerOps :
        /\ stk' = [stk EXCEPT ![t] = <<o>>]
        /\ pc' = [pc EXCEPT ![t] = Entry(o)]
        /\ fresh' = [fresh EXCEPT ![t] = (o = "provide" /\ stable)]
    /\ calls' = calls + 1
    /\ UNCHANGED <<mode, platform, sideVars, fsVars, lockFileVars, rlockVars, exc,
                   flagVars, tmp, tries, envVars, deploys, stable, since>>

\* The caller has seen how the call ended.
Done(t) ==
    /\ pc[t] = "ret"
    /\ Turn(t)
    /\ pc' = [pc EXCEPT ![t] = "idle"]
    /\ stk' = [stk EXCEPT ![t] = <<>>]
    /\ exc' = [exc EXCEPT ![t] = "none"]
    /\ fresh' = [fresh EXCEPT ![t] = FALSE]
    /\ since' = [since EXCEPT ![t] = FALSE]
    /\ UNCHANGED <<mode, platform, sideVars, fsVars, lockFileVars, rlockVars, calls,
                   flagVars, tmp, tries, envVars, deploys, stable>>

\* Resource.__init__: the caller replaces the thread's descriptor by a new one
\* of the same identity path.
NewDescriptor(t) ==
    /\ pc[t] = "idle"
    /\ Turn(t)
    /\ avail[t] \/ activated[t]
    /\ avail' = [avail EXCEPT ![t] = FALSE]
    /\ activated' = [activated EXCEPT ![t] = FALSE]
    /\ UNCHANGED <<mode, platform, sideVars, fsVars, lockFileVars, rlockVars, ctlVars,
                   calls, tmp, tries, envVars, histVars>>

\* A process is killed in the middle of a call: its threads stop where they
\* are, the OS closes its files and drops its locks, the tree stays as it is.
Kill(p) ==
    /\ kills < MaxKills
    /\ \E t \in Threads : ProcOf(t) = p /\ pc[t] \notin {"idle", "dead"}
    /\ kills' = kills + 1
    /\ UNCHANGED <<collisions, afails>>
    /\ pc' = [t \in Threads |-> IF ProcOf(t) = p THEN "dead" ELSE pc[t]]
    /\ stk' = [t \in Threads |-> IF ProcOf(t) = p THEN <<>> ELSE stk[t]]
    /\ exc' = [t \in Threads |-> IF ProcOf(t) = p THEN "none" ELSE exc[t]]
    /\ fd' = [fd EXCEPT ![p] = 0]
    /\ flocked' = [flocked EXCEPT ![p] = FALSE]
    /\ rowner' = [rowner EXCEPT ![p] = 0]
    /\ rdepth' = [rdepth EXCEPT ![p] = 0]
    /\ counter' = [counter EXCEPT ![p] = 0]
    /\ tmp' = [t \in Threads |-> IF ProcOf(t) = p THEN 0 ELSE tmp[t]]
    /\ tries' = [t \in Threads |-> IF ProcOf(t) = p THEN 0 ELSE tries[t]]
    /\ UNCHANGED <<mode, platform, sideVars, fsVars, lockPath, calls, flagVars,
                   histVars>>

----------------------------------------------------------------------------
\* PythonPackage with requirements, called by one caller

\* A package with two requirements, one of which has a requirement itself.
Pkgs == {"app", "liba", "libb", "libc"}
Reqs ==
    [q \in Pkgs |->
        CASE q = "app" -> <<"liba", "libb">>
          [] q = "liba" -> <<"libc">>
          [] OTHER -> <<>>]

\* Calls the caller may issue on the packages.
MaxPkgCalls == 3

\* Every requirement of q, the requirements of its requirements included.
RECURSIVE AllReqs(_)
AllReqs(q) == Range(Reqs[q]) \cup UNION {AllReqs(r) : r \in Range(Reqs[q])}

NewPkg(n) ==
    [named |-> n, present |-> FALSE, available |-> FALSE,
     activated |-> FALSE, imports |-> 0, acts |-> 0]
Frame(l, q) == [l |-> l, q |-> q, i |-> 1]
NoCall == [op |-> "none", q |-> "none", st |-> "idle"]

PkgIdle ==
    /\ pkgs = [q \in Pkgs |-> NewPkg(TRUE)]
    /\ frames = <<>>
    /\ raised = "none"
    /\ pcall = NoCall
    /\ pkgCalls = 0
    /\ touched = {}

PkgOps == {"provide", "activate", "cleanup", "deploy"}
PkgEntry(o) ==
    CASE o = "provide" -> "pv"
      [] o = "activate" -> "ac"
      [] o = "cleanup" -> "cl"
      [] o = "deploy" -> "dp"

\* The function of the innermost frame returns; with the last frame the call
\* the caller issued has returned.
PkgReturn(ps) ==
    /\ frames' = Tail(frames)
    /\ raised' = "none"
    /\ IF Len(frames) = 1
       THEN /\ pcall' = [pcall EXCEPT !.st = "ret"]
            /\ pkgs' = IF pcall.op = "activate"
                       THEN [ps EXCEPT ![pcall.q].acts =
                                IF @ < 2 THEN @ + 1 ELSE @]
                       ELSE ps
       ELSE /\ pkgs' = ps
            /\ UNCHANGED pcall

\* An exception leaves every frame: provide() and activate() of PythonPackage
\* have no handler, the with block of Resource.provide is inside the step
\* that raises.
PkgRaise(e, ps) ==
    /\ frames' = <<>>
    /\ raised' = e
    /\ pcall' = [pcall EXCEPT !.st = "ret"]
    /\ pkgs' = ps

\* The caller issues a call on a package descriptor.
PkgCall ==
    /\ pcall.st # "run"
    /\ pkgCalls < MaxPkgCalls
    /\ \E o \in PkgOps, q \in Pkgs :
        /\ pcall' = [op |-> o, q |-> q, st |-> "run"]
        /\ frames' = <<Frame(PkgEntry(o), q)>>
    /\ raised' = "none"
    /\ touched' = {}
    /\ pkgCalls' = pkgCalls + 1
    /\ UNCHANGED <<mode, platform, mainVars, regVars, relVars, arcVars, pkgs>>

\* PythonPackage.provide: for r in self.requirements: r.provide(); then
\* super().provide()
PkgProvide ==
    /\ frames # <<>> /\ Head(frames).l = "pv"
    /\ LET f == Head(frames) IN
       frames' = IF f.i <= Len(Reqs[f.q])
                 THEN <<Frame("pv", Reqs[f.q][f.i]), [f EXCEPT !.i = @ + 1]>>
                          \o Tail(frames)
                 ELSE <<[f EXCEPT !.l = "pv_base"]>> \o Tail(frames)
    /\ UNCHANGED <<mode, platform, mainVars, regVars, relVars, arcVars, pkgs, raised,
                   pcall, pkgCalls, touched>>

\* Resource.provide as a whole: the flag, the two assertions, and under the
\* lock the presence check and deploy(), which may raise.
PkgProvideBase ==
    /\ frames # <<>> /\ Head(frames).l = "pv_base"
    /\ LET q == Head(frames).q IN
       IF pkgs[q].available
       THEN /\ PkgReturn(pkgs)
            /\ UNCHANGED touched
       ELSE IF ~pkgs[q].named
       THEN /\ PkgRaise("AssertionError", pkgs)
            /\ UNCHANGED touched
       ELSE /\ touched' = touched \cup {q}
            /\ IF pkgs[q].present
               THEN PkgReturn([pkgs EXCEPT ![q].available = TRUE])
               ELSE \E ok \in BOOLEAN :
                    IF ok
                    THEN PkgReturn([pkgs EXCEPT ![q].present = TRUE,
                                                ![q].available = TRUE])
                    ELSE PkgRaise("DeployError", pkgs)
    /\ UNCHANGED <<mode, platform, mainVars, regVars, relVars, arcVars, pkgCalls>>

\* activate() without its first two lines: every call goes on to provide()
\* and the import.
PkgActivateAlways ==
    /\ frames # <<>> /\ Head(frames).l = "ac"
    /\ LET f == Head(frames) IN
       /\ frames' = <<Frame("pv", f.q), [f EXCEPT !.l = "ac_reqs"]>>
                        \o Tail(frames)
       /\ UNCHANGED <<pkgs, raised, pcall>>
    /\ UNCHANGED <<mode, platform, mainVars, regVars, relVars, arcVars, pkgCalls,
                   touched>>

\* activate(): if self._activated: return; self.provide()
PkgActivate ==
    /\ frames # <<>> /\ Head(frames).l = "ac"
    /\ LET f == Head(frames) IN
       IF pkgs[f.q].activated
       THEN PkgReturn(pkgs)
       ELSE /\ frames' = <<Frame("pv", f.q), [f EXCEPT !.l = "ac_reqs"]>>
                            \o Tail(frames)
            /\ UNCHANGED <<pkgs, raised, pcall>>
    /\ UNCHANGED <<mode, platform, mainVars, regVars, relVars, arcVars, pkgCalls,
                   touched>>

\* activate(): [r.activate() for r in self.requirements]
PkgActivateReqs ==
    /\ frames # <<>> /\ Head(frames).l = "ac_reqs"
    /\ LET f == Head(frames) IN
       frames' = IF f.i <= Len(Reqs[f.q])
                 THEN <<Frame("ac", Reqs[f.q][f.i]), [f EXCEPT !.i = @ + 1]>>
                          \o Tail(frames)
                 ELSE <<[f EXCEPT !.l = "ac_import"]>> \o Tail(frames)
    /\ UNCHANGED <<mode, platform, mainVars, regVars, relVars, arcVars, pkgs, raised,
                   pcall, pkgCalls, touched>>

\* activate() with the flag set before the import instead of after it.
PkgImportMarks ==
    /\ frames # <<>> /\ Head(frames).l = "ac_import"
    /\ LET q == Head(frames).q IN
       \E ok \in BOOLEAN :
          IF ok
          THEN PkgReturn([pkgs EXCEPT ![q].activated = TRUE,
                            ![q].imports = IF @ < 2 THEN @ + 1 ELSE @])
          ELSE PkgRaise("ImportError", [pkgs EXCEPT ![q].activated = TRUE])
    /\ UNCHANGED <<mode, platform, mainVars, regVars, relVars, arcVars, pkgCalls,
                   touched>>

\* activate(): __import__(self.name), which may raise; self._activated = True
PkgImport ==
    /\ frames # <<>> /\ Head(frames).l = "ac_import"
    /\ LET q == Head(frames).q IN
       \E ok \in BOOLEAN :
          IF ok
          THEN PkgReturn([pkgs EXCEPT ![q].activated = TRUE,
                            ![q].imports = IF @ < 2 THEN @ + 1 ELSE @])
          ELSE PkgRaise("ImportError", pkgs)
    /\ UNCHANGED <<mode, platform, mainVars, regVars, relVars, arcVars, pkgCalls,
                   touched>>

\* LocalResource.cleanup as a whole: under the lock the directory is removed
\* and _available cleared.
PkgCleanup ==
    /\ frames # <<>> /\ Head(frames).l = "cl"
    /\ LET q == Head(frames).q IN
       /\ touched' = touched \cup {q}
       /\ PkgReturn([pkgs EXCEPT ![q].present = FALSE,
                                 ![q].available = FALSE])
    /\ UNCHANGED <<mode, platform, mainVars, regVars, relVars, arcVars, pkgCalls>>

\* LocalResource.deploy as a whole: cleanup(), then staging, _deploy_to,
\* which may raise, and the rename.
PkgDeploy ==
    /\ frames # <<>> /\ Head(frames).l = "dp"
    /\ LET q == Head(frames).q IN
       /\ touched' = touched \cup {q}
       /\ \E ok \in BOOLEAN :
            IF ok
            THEN PkgReturn([pkgs EXCEPT ![q].present = TRUE,
                                        ![q].available = FALSE])
            ELSE PkgRaise("DeployError",
                          [pkgs EXCEPT ![q].present = FALSE,
                                       ![q].available = FALSE])
    /\ UNCHANGED <<mode, platform, mainVars, regVars, relVars, arcVars, pkgCalls>>

----------------------------------------------------------------------------
\* PyPiPackage.release_info and archive_url

\* File names are kept as their runs of word characters and the single
\* characters between them, which is what the two tests of the filter look
\* at: the platform tag lies inside one run, and \Wany\W is the run "any"
\* with a character before and after it.
SdistName == <<"pkg", "-", "1", ".", "0", ".", "tar", ".", "gz">>
WheelName(py, tag) ==
    <<"pkg", "-", "1", ".", "0", "-", py, "-", "none", "-", tag, ".", "whl">>

Release(f, pv, u) == [filename |-> f, python_version |-> pv, url |-> u]
ReleaseKinds ==
    {Release(SdistName, "source", "sdist"),
     Release(WheelName("cp38", "win_amd64"), "cp38", "win38"),
     Release(WheelName("cp39", "win_amd64"), "cp39", "win39"),
     Release(WheelName("py3", "any"), "py3", "any"),
     Release(WheelName("cp39", "manylinux1_x86_64"), "cp39", "linux")}

\* Files PyPI may list for the version.
MaxReleases == 3

\* platform = 'win_amd64'
TargetPlatform == "win_amd64"

NoRelease == Release(<<>>, "", "")

RelIdle ==
    /\ releases = <<>>
    /\ releaseInfo = NoRelease
    /\ archiveUrl = ""
    /\ relExc = "none"

\* platform in r['filename']
HasPlatform(f) == \E i \in 1..Len(f) : f[i] = TargetPlatform

\* re.search(r'\Wany\W', r['filename'])
HasAnyTag(f) == \E i \in 2..(Len(f) - 1) : f[i] = "any"

IsCandidate(r) == HasPlatform(r.filename) \/ HasAnyTag(r.filename)

\* release_info: the list that is left after the source rule and the filter.
Candidates(rs) ==
    IF Len(rs) = 1 /\ rs[1].python_version = "source" THEN rs
    ELSE SelectSeq(rs, IsCandidate)

\* release_info: assert len(releases) >= 1; self._release_info = releases[0]
Resolved(rs) ==
    IF Len(Candidates(rs)) >= 1 THEN Candidates(rs)[1] ELSE NoRelease

\* The release_info property is read.
ReleaseInfo ==
    /\ relExc = "none"
    /\ releaseInfo = NoRelease
    /\ IF Resolved(releases) = NoRelease
       THEN /\ relExc' = "AssertionError"
            /\ UNCHANGED releaseInfo
       ELSE /\ releaseInfo' = Resolved(releases)
            /\ UNCHANGED relExc
    /\ UNCHANGED <<mode, platform, mainVars, regVars, pkgVars, arcVars, releases,
                   archiveUrl>>

\* The archive_url property is read: if not self._archive_url:
\*     self._archive_url = self.release_info['url']
ArchiveUrl ==
    /\ relExc = "none"
    /\ archiveUrl = ""
    /\ LET info == IF releaseInfo = NoRelease THEN Resolved(releases)
                   ELSE releaseInfo IN
       IF info = NoRelease
       THEN /\ relExc' = "AssertionError"
            /\ UNCHANGED <<releaseInfo, archiveUrl>>
       ELSE /\ releaseInfo' = info
            /\ archiveUrl' = info.url
            /\ UNCHANGED relExc
    /\ UNCHANGED <<mode, platform, mainVars, regVars, pkgVars, arcVars, releases>>

----------------------------------------------------------------------------
\* ArchivedResource._deploy_to

\* Paths, character by character.
PkgBinToolExe ==
    <<"p", "k", "g", "/", "b", "i", "n", "/",
      "t", "o", "o", "l", ".", "e", "x", "e">>
PkgReadmeTxt ==
    <<"p", "k", "g", "/", "r", "e", "a", "d", "m", "e", ".", "t", "x", "t">>
BinToolExe == <<"b", "i", "n", "/", "t", "o", "o", "l", ".", "e", "x", "e">>
ToolExe == <<"t", "o", "o", "l", ".", "e", "x", "e">>
BinKey == <<"b", "i", "n", "/">>
PkgBinKey == <<"p", "k", "g", "/", "b", "i", "n", "/">>
PkgKey == <<"p", "k", "g", "/">>

UpEvil == <<".", ".", "/", "e", "v", "i", "l">>
RootEvil == <<"/", "e", "v", "i", "l">>

ArchiveEntries ==
    {PkgBinToolExe, PkgReadmeTxt, BinToolExe, ToolExe, UpEvil, RootEvil}

\* archive_extraction values: the default, the two one-key maps, a map with
\* two keys, a map whose path puts the files at "/...", and a map whose key
\* is a whole entry name.
Rule(k, p) == [key |-> k, path |-> p]
ExtractionMaps ==
    {<<Rule(<<>>, <<>>)>>,
     <<Rule(BinKey, <<>>)>>,
     <<Rule(PkgBinKey, <<>>)>>,
     <<Rule(PkgBinKey, <<>>), Rule(PkgKey, <<"d", "/">>)>>,
     <<Rule(PkgKey, <<"/">>)>>,
     <<Rule(ToolExe, <<>>)>>}

\* Files in the archive.
MaxEntries == 3

ArcIdle ==
    /\ archive = <<>>
    /\ extraction = <<Rule(<<>>, <<>>)>>
    /\ pos = 0
    /\ dest = {}
    /\ arcExc = "none"

\* A key that may match anywhere at or after the start of a directory of the
\* name, the rest of the name counted from the start as before.
StartsWithin(f, k) ==
    \E i \in 0..(Len(f) - Len(k)) :
        /\ i = 0 \/ f[i] = "/"
        /\ SubSeq(f, i + 1, i + Len(k)) = k

\* filename.startswith(k)
StartsWith(f, k) == Len(k) <= Len(f) /\ SubSeq(f, 1, Len(k)) = k

\* The loop over the map taking the last rule that matches instead of
\* stopping at the first.
LastRule(f, m) ==
    IF \E j \in 1..Len(m) : StartsWith(f, m[j].key)
    THEN CHOOSE j \in 1..Len(m) :
            /\ StartsWith(f, m[j].key)
            /\ \A h \in (j + 1)..Len(m) : ~StartsWith(f, m[h].key)
    ELSE 0

\* for k, v in self.archive_extraction.items(): ... break -- the index of the
\* first rule whose key the file name starts with, 0 when the loop ends
\* without break.
FirstRule(f, m) ==
    IF \E j \in 1..Len(m) : StartsWith(f, m[j].key)
    THEN CHOOSE j \in 1..Len(m) :
            /\ StartsWith(f, m[j].key)
            /\ \A h \in 1..(j - 1) : ~StartsWith(f, m[h].key)
    ELSE 0

\* dest_path = v['path'] + filename[len(k):]
DestPath(f, r) == r.path \o SubSeq(f, Len(r.key) + 1, Len(f))

\* _deploy_to: one turn of `for filename in extractor.get_file_list()`.
ExtractFile ==
    /\ arcExc = "none"
    /\ pos < Len(archive)
    /\ LET f == archive[pos + 1]
           j == FirstRule(f, extraction) IN
       IF j = 0
       THEN /\ pos' = pos + 1
            /\ UNCHANGED <<dest, arcExc>>
       ELSE LET d == DestPath(f, extraction[j]) IN
            IF d = <<>> \/ d[1] = "/"
            THEN /\ arcExc' = "AssertionError"
                 /\ UNCHANGED <<pos, dest>>
            ELSE /\ dest' = dest \cup {d}
                 /\ pos' = pos + 1
                 /\ UNCHANGED arcExc
    /\ UNCHANGED <<mode, platform, mainVars, regVars, pkgVars, relVars, archive,
                   extraction>>

----------------------------------------------------------------------------
\* lock(), HybridLock and PythonPackage.provide over several identity paths

\* Two packages, the second requiring the first; a key of the registry is the
\* identity path of a package. The lock file of a key is taken here as the
\* other processes see it while it is held; what unlinking it does is the
\* matter of the single-path actions above.
Keys == {"lib", "app"}

\* The identity paths a call locks one after the other: provide() of the
\* library; provide() of the application (its requirement first); activate()
\* of the application (provide(), then activate() of the requirement).
Programs == {<<"lib">>, <<"lib", "app">>, <<"lib", "app", "lib">>}

\* Calls the callers may issue on the packages, all threads together.
MaxRegCalls == 2

\* HybridLock objects a process may construct.
InstIds == 1..(Cardinality(Keys) + 1)

NoWork ==
    [pc |-> "idle", prog |-> <<>>, key |-> "none", found |-> FALSE, got |-> 0,
     nest |-> 0, exc |-> "none", res |-> "none"]
NewLock == [owner |-> 0, depth |-> 0, counter |-> 0]

RegIdle ==
    /\ wk = [t \in Threads |-> NoWork]
    /\ regMutex = [p \in Procs |-> 0]
    /\ registry = [p \in Procs |-> [k \in Keys |-> 0]]
    /\ insts = [p \in Procs |-> 0]
    /\ given = [p \in Procs |-> [k \in Keys |-> {}]]
    /\ hl = [p \in Procs |-> [i \in InstIds |-> NewLock]]
    /\ fh = [k \in Keys |-> 0]
    /\ spath = [p \in Procs |-> <<>>]
    /\ regCalls = 0
    /\ rfails = 0

\* The call of t ends, returning or raising.
RegEnd(t, r) == wk' = [wk EXCEPT ![t] = [NoWork EXCEPT !.res = r]]

\* A caller calls provide() or activate().
RegCall(t) ==
    /\ wk[t].pc = "idle"
    /\ regCalls < MaxRegCalls
    /\ \E g \in Programs :
        wk' = [wk EXCEPT ![t] = [NoWork EXCEPT !.pc = "rg_check", !.prog = g,
                                               !.key = Head(g), !.res = "run"]]
    /\ regCalls' = regCalls + 1
    /\ UNCHANGED <<mode, platform, mainVars, pkgVars, relVars, arcVars,
                   regMutex, registry, insts, given, hl, fh, spath, rfails>>

\* lock() entered without taking _locks[None].
RegCheckUnlocked(t) ==
    LET p == ProcOf(t) IN
    /\ wk[t].pc = "rg_check"
    /\ regMutex' = [regMutex EXCEPT ![p] = t]
    /\ wk' = [wk EXCEPT ![t].pc = "rg_insert",
                        ![t].found = (registry[p][wk[t].key] # 0)]
    /\ UNCHANGED <<mode, platform, mainVars, pkgVars, relVars, arcVars,
                   registry, insts, given, hl, fh, spath, regCalls, rfails>>

\* lock(): with _locks[None]: if key not in _locks
RegCheck(t) ==
    LET p == ProcOf(t) IN
    /\ wk[t].pc = "rg_check"
    /\ regMutex[p] = 0
    /\ regMutex' = [regMutex EXCEPT ![p] = t]
    /\ wk' = [wk EXCEPT ![t].pc = "rg_insert",
                        ![t].found = (registry[p][wk[t].key] # 0)]
    /\ UNCHANGED <<mode, platform, mainVars, pkgVars, relVars, arcVars,
                   registry, insts, given, hl, fh, spath, regCalls, rfails>>

\* lock() keeping one HybridLock for all keys.
RegInsertShared(t) ==
    LET p == ProcOf(t)
        k == wk[t].key IN
    /\ wk[t].pc = "rg_insert"
    /\ registry' = [registry EXCEPT ![p][k] = 1]
    /\ insts' = [insts EXCEPT ![p] = 1]
    /\ regMutex' = [regMutex EXCEPT ![p] = 0]
    /\ given' = [given EXCEPT ![p][k] = @ \cup {1}]
    /\ wk' = [wk EXCEPT ![t].pc = "hl_enter", ![t].got = 1]
    /\ UNCHANGED <<mode, platform, mainVars, pkgVars, relVars, arcVars, hl, fh,
                   spath, regCalls, rfails>>

\* lock(): _locks[key] = HybridLock(key); the with block ends;
\* return _locks[key]
RegInsert(t) ==
    LET p == ProcOf(t)
        k == wk[t].key
        i == IF wk[t].found THEN registry[p][k] ELSE insts[p] + 1 IN
    /\ wk[t].pc = "rg_insert"
    /\ i \in InstIds
    /\ registry' = [registry EXCEPT ![p][k] = i]
    /\ insts' = IF wk[t].found THEN insts ELSE [insts EXCEPT ![p] = i]
    /\ regMutex' = [regMutex EXCEPT ![p] = 0]
    /\ given' = [given EXCEPT ![p][k] = @ \cup {i}]
    /\ wk' = [wk EXCEPT ![t].pc = "hl_enter", ![t].got = i]
    /\ UNCHANGED <<mode, platform, mainVars, pkgVars, relVars, arcVars, hl, fh,
                   spath, regCalls, rfails>>

\* __enter__: self.lock.acquire(); self.counter += 1; if self.counter == 1
HlEnter(t) ==
    LET p == ProcOf(t)
        i == wk[t].got IN
    /\ wk[t].pc = "hl_enter"
    /\ hl[p][i].owner \in {0, t}
    /\ hl' = [hl EXCEPT ![p][i] = [owner |-> t, depth |-> @.depth + 1,
                                   counter |-> @.counter + 1]]
    /\ wk' = [wk EXCEPT ![t].pc = IF hl[p][i].counter = 0 THEN "hl_file"
                                  ELSE "body",
                        ![t].nest = @ + 1]
    /\ UNCHANGED <<mode, platform, mainVars, pkgVars, relVars, arcVars,
                   regMutex, registry, insts, given, fh, spath, regCalls,
                   rfails>>

\* __enter__: self.file_lock.acquire(), and once more when it raises; the
\* second exception leaves __enter__ with the RLock and the counter as they
\* are.
HlFile(t) ==
    LET p == ProcOf(t)
        k == wk[t].key IN
    /\ wk[t].pc \in {"hl_file", "hl_retry"}
    /\ \/ /\ fh[k] = 0
          /\ fh' = [fh EXCEPT ![k] = p]
          /\ wk' = [wk EXCEPT ![t].pc = "body"]
          /\ UNCHANGED rfails
       \/ /\ rfails < MaxAcquireFailures
          /\ rfails' = rfails + 1
          /\ IF wk[t].pc = "hl_file"
             THEN wk' = [wk EXCEPT ![t].pc = "hl_retry"]
             ELSE RegEnd(t, "AcquireError")
          /\ UNCHANGED fh
    /\ UNCHANGED <<mode, platform, mainVars, pkgVars, relVars, arcVars,
                   regMutex, registry, insts, given, hl, spath, regCalls>>

\* Resource.provide under the lock: the version is there, or deploy() is
\* called, which begins with cleanup() and its own `with self.lock`.
RegBody(t) ==
    /\ wk[t].pc = "body"
    /\ \/ wk' = [wk EXCEPT ![t].pc = IF wk[t].nest = 1 THEN "hl_exit"
                                     ELSE "cleanup"]
       \/ wk[t].nest = 1 /\ wk' = [wk EXCEPT ![t].pc = "rg_check"]
    /\ UNCHANGED <<mode, platform, mainVars, pkgVars, relVars, arcVars,
                   regMutex, registry, insts, given, hl, fh, spath, regCalls,
                   rfails>>

\* cleanup() under its lock, and the rest of deploy() after cleanup()
\* returned, which may raise.
RegDeploy(t) ==
    /\ wk[t].pc \in {"cleanup", "deploy"}
    /\ IF wk[t].pc = "cleanup"
       THEN wk' = [wk EXCEPT ![t].pc = "hl_exit"]
       ELSE \E e \in {"none", "DeployError"} :
                wk' = [wk EXCEPT ![t].pc = "hl_exit", ![t].exc = e]
    /\ UNCHANGED <<mode, platform, mainVars, pkgVars, relVars, arcVars,
                   regMutex, registry, insts, given, hl, fh, spath, regCalls,
                   rfails>>

\* __exit__: self.counter -= 1; if not self.counter:
\* self.file_lock.release(); self.lock.release()
HlExit(t) ==
    LET p == ProcOf(t)
        i == wk[t].got
        k == wk[t].key IN
    /\ wk[t].pc = "hl_exit"
    /\ hl' = [hl EXCEPT ![p][i] =
                [owner |-> IF @.depth = 1 THEN 0 ELSE t,
                 depth |-> @.depth - 1,
                 counter |-> @.counter - 1]]
    /\ fh' = IF hl[p][i].counter = 1 THEN [fh EXCEPT ![k] = 0] ELSE fh
    /\ IF wk[t].nest = 2
       THEN wk' = [wk EXCEPT ![t].pc = "deploy", ![t].nest = 1]
       ELSE IF wk[t].exc # "none"
       THEN RegEnd(t, wk[t].exc)
       ELSE wk' = [wk EXCEPT ![t].pc = "sp_check", ![t].nest = 0]
    /\ UNCHANGED <<mode, platform, mainVars, pkgVars, relVars, arcVars,
                   regMutex, registry, insts, given, spath, regCalls, rfails>>

\* PythonPackage.provide: if str(self.path) not in sys.path
SpCheck(t) ==
    /\ wk[t].pc = "sp_check"
    /\ wk' = [wk EXCEPT ![t].pc = "sp_insert",
                        ![t].found = (wk[t].key \in Range(spath[ProcOf(t)]))]
    /\ UNCHANGED <<mode, platform, mainVars, pkgVars, relVars, arcVars,
                   regMutex, registry, insts, given, hl, fh, spath, regCalls,
                   rfails>>

\* PythonPackage.provide: sys.path.insert(0, str(self.path)); provide()
\* returns, and the call goes on to the next package or returns.
SpInsert(t) ==
    LET p == ProcOf(t)
        rest == Tail(wk[t].prog) IN
    /\ wk[t].pc = "sp_insert"
    /\ spath' = IF wk[t].found THEN spath
                ELSE [spath EXCEPT ![p] = <<wk[t].key>> \o @]
    /\ IF rest = <<>>
       THEN RegEnd(t, "returned")
       ELSE wk' = [wk EXCEPT ![t].pc = "rg_check", ![t].prog = rest,
                             ![t].key = Head(rest), ![t].found = FALSE,
                             ![t].got = 0]
    /\ UNCHANGED <<mode, platform, mainVars, pkgVars, relVars, arcVars,
                   regMutex, registry, insts, given, hl, fh, regCalls, rfails>>

SideIdle == PkgIdle /\ RelIdle /\ ArcIdle /\ RegIdle

----------------------------------------------------------------------------
\* The specifications

InitTree ==
    /\ platform \in Platforms
    /\ parent \in BOOLEAN
    /\ canon \in {NoDir, FullDir}
    /\ canon.ex => parent
    /\ temps = [s \in TempStems |-> NoDir]
    /\ lockPath = 0
    /\ fd = [p \in Procs |-> 0]
    /\ flocked = [p \in Procs |-> FALSE]
    /\ rowner = [p \in Procs |-> 0]
    /\ rdepth = [p \in Procs |-> 0]
    /\ counter = [p \in Procs |-> 0]
    /\ pc = [t \in Threads |-> "idle"]
    /\ stk = [t \in Threads |-> <<>>]
    /\ exc = [t \in Threads |-> "none"]
    /\ calls = 0
    /\ avail = [t \in Threads |-> FALSE]
    /\ activated = [t \in Threads |-> FALSE]
    /\ tmp = [t \in Threads |-> 0]
    /\ tries = [t \in Threads |-> 0]
    /\ kills = 0
    /\ collisions = 0
    /\ afails = 0
    /\ deploys = 0
    /\ stable = FALSE
    /\ fresh = [t \in Threads |-> FALSE]
    /\ since = [t \in Threads |-> FALSE]

Init == mode = "par" /\ InitTree /\ SideIdle
InitSeq == mode = "seq" /\ InitTree /\ SideIdle

\* The steps of provide(), cleanup() and deploy().
CoreStep(t) ==
    \/ Call(t)
    \/ Done(t)
    \/ NewDescriptor(t)
    \/ Provide(t)
    \/ ProvCheck(t)
    \/ ProvMark(t)
    \/ Cleanup(t)
    \/ ClnIsDir(t)
    \/ ClnRm(t)
    \/ ClnRmdir(t)
    \/ ClnFlag(t)
    \/ Deploy(t)
    \/ DepPick(t)
    \/ DepMkdir(t)
    \/ DepTo(t)
    \/ DepRename(t)
    \/ DepExcept(t)
    \/ LkEnter(t)
    \/ LkMkdirs(t)
    \/ LkOpen(t)
    \/ LkTry(t)
    \/ LkExit(t)
    \/ LkUnlink(t)
    \/ LkRRelease(t)

Next ==
    \/ \E t \in Threads : CoreStep(t)
    \/ \E p \in Procs : Kill(p)

\* Threads and processes calling provide(), cleanup() and deploy()
\* concurrently.
Spec == Init /\ [][Next]_vars

\* The cache entry is absent and the callers race provide(); no process is
\* killed.
InitProvide == mode = "prov" /\ InitTree /\ ~canon.ex /\ SideIdle
NextProvide == \E t \in Threads : CoreStep(t)
SpecProvide == InitProvide /\ [][NextProvide]_vars

\* The callers race provide() and cleanup() and file_lock.acquire() may
\* raise; no process is killed.
InitLock == mode = "lock" /\ InitTree /\ SideIdle
NextLock == \E t \in Threads : CoreStep(t)
SpecLock == InitLock /\ [][NextLock]_vars

\* Sequences of length at most n over the set S, no element twice.
RECURSIVE SeqsOf(_, _)
SeqsOf(S, n) ==
    IF n = 0 THEN {<<>>}
    ELSE SeqsOf(S, n - 1)
         \cup {Append(x, e) : x \in {y \in SeqsOf(S, n - 1) : Len(y) = n - 1},
                               e \in S}

\* Nothing is going on in the cache of the one identity path.
MainIdle == InitTree /\ platform = "posix" /\ ~parent

\* One caller issues calls on the packages, any of which may lack a name.
InitPkg ==
    /\ mode = "pkg" /\ MainIdle /\ RelIdle /\ ArcIdle /\ RegIdle
    /\ pkgs \in {[q \in Pkgs |-> NewPkg(n[q])] : n \in [Pkgs -> BOOLEAN]}
    /\ frames = <<>>
    /\ raised = "none"
    /\ pcall = NoCall
    /\ pkgCalls = 0
    /\ touched = {}
NextPkg ==
    \/ PkgCall
    \/ PkgProvide
    \/ PkgProvideBase
    \/ PkgActivate
    \/ PkgActivateReqs
    \/ PkgImport
    \/ PkgCleanup
    \/ PkgDeploy
SpecPkg == InitPkg /\ [][NextPkg]_vars

\* The release list PyPI answers with, then the two properties are read.
InitRel ==
    /\ mode = "rel" /\ MainIdle /\ PkgIdle /\ ArcIdle /\ RegIdle
    /\ releases \in SeqsOf(ReleaseKinds, MaxReleases)
    /\ releaseInfo = NoRelease
    /\ archiveUrl = ""
    /\ relExc = "none"
NextRel == ReleaseInfo \/ ArchiveUrl
SpecRel == InitRel /\ [][NextRel]_vars

\* An archive and an extraction map, then _deploy_to goes through the files.
InitArc ==
    /\ mode = "arc" /\ MainIdle /\ PkgIdle /\ RelIdle /\ RegIdle
    /\ archive \in SeqsOf(ArchiveEntries, MaxEntries)
    /\ extraction \in ExtractionMaps
    /\ pos = 0
    /\ dest = {}
    /\ arcExc = "none"
NextArc == ExtractFile
SpecArc == InitArc /\ [][NextArc]_vars

\* Threads of two processes call provide() and activate() on the packages.
InitReg == mode = "reg" /\ MainIdle /\ SideIdle
RegStep(t) ==
    \/ RegCall(t)
    \/ RegCheck(t)
    \/ RegInsert(t)
    \/ HlEnter(t)
    \/ HlFile(t)
    \/ RegBody(t)
    \/ RegDeploy(t)
    \/ HlExit(t)
    \/ SpCheck(t)
    \/ SpInsert(t)
NextReg == \E t \in Threads : RegStep(t)
SpecReg == InitReg /\ [][NextReg]_vars

\* The same with every call that has begun going on as long as it can, and
\* a thread that can take a mutex, an RLock or a lock file again and again
\* taking it at last; callers need not call.
RegFairness ==
    \A t \in Threads :
        /\ SF_vars(RegCheck(t))
        /\ SF_vars(HlEnter(t))
        /\ SF_vars(HlFile(t))
        /\ WF_vars(RegInsert(t) \/ RegBody(t) \/ RegDeploy(t) \/ HlExit(t)
                    \/ SpCheck(t) \/ SpInsert(t))
SpecRegFair == SpecReg /\ RegFairness

NextSeq ==
    \/ \E t \in Threads : CoreStep(t)
    \/ \E t \in Threads : Activate(t)
    \/ \E t \in Threads : ActImport(t)

\* The same callers issuing one call at a time, activate() included; no
\* process is killed.
SpecSeq == InitSeq /\ [][NextSeq]_vars

----------------------------------------------------------------------------
\* The claims

\* Thread t is inside a section guarded by the identity's HybridLock: after
\* __enter__ has returned and before __exit__ starts, in the with block of
\* provide() (from the presence re-check to the end of deploy()) or of
\* cleanup().
InSection(t) ==
    \/ pc[t] \in {"prov_check", "prov_mark", "cln_isdir", "cln_rm",
                  "cln_rmdir", "cln_flag"}
    \/ "prov_mark" \in Range(stk[t])

\* C1: at most one thread, over all threads of all processes, is inside a
\* section guarded by the HybridLock of the identity path.
MutualExclusion ==
    \A t \in Threads : \A u \in Threads \ {t} :
        ~(InSection(t) /\ InSection(u))

\* A staging directory that lacks files was published under the canonical
\* name (cleanup() empties the directory before it removes it, so a canonical
\* directory with some but not all files was renamed there like that).
PartialExtraction == canon.ex /\ canon.files \notin {{}, Files}

\* Thread t fails in this step on what another caller did: the staging name
\* it found free is taken, its rename finds the target there, or the
\* directory it removes is gone or filled again.
FailsByOthers(t) ==
    \/ pc[t] \in {"dep_mkdir", "dep_rename"} /\ pc'[t] = "dep_except"
    \/ pc[t] \in {"cln_rm", "cln_rmdir"} /\ exc'[t] # "none"

\* The call of o on thread t has returned normally and the caller looks.
Returned(t, o) == pc[t] = "ret" /\ stk[t] = <<o>> /\ exc[t] = "none"

\* Every call has returned, one of them normally.
AllReturned ==
    /\ \A t \in Threads : pc[t] \in {"idle", "ret"}
    /\ \E t \in Threads : Returned(t, "provide")

\* C2: with concurrent provide() calls the canonical directory never holds a
\* partial extraction, no call fails because of the other callers, and once
\* all calls have returned one complete artifact is at the canonical path.
ProvideRace ==
    /\ [](~PartialExtraction)
    /\ [][\A t \in Threads : ~FailsByOthers(t)]_vars
    /\ [](AllReturned => canon.ex /\ canon.files = Files)

\* C3: whenever a provide() call returns normally, get_available_versions()
\* contains the version at that moment, whatever provide() and cleanup()
\* calls came before through descriptors of the same identity path.
ProvideMakesAvailable ==
    \A t \in Threads :
        Returned(t, "provide") => VersionName \in GetAvailableVersions

\* C4: once a provide() has succeeded and no cleanup() has run since, a later
\* provide() does not call deploy() (the one step of provide() that touches
\* the canonical or a staging directory).
ProvideIdempotent ==
    \A t \in Threads : ~(fresh[t] /\ pc[t] = "dep")

\* Thread t is in deploy(), the cleanup() it calls first included.
DeployLabels ==
    {"dep", "dep_pick", "dep_mkdir", "dep_to1", "dep_to2", "dep_rename",
     "dep_except"}
InDeploy(t) == pc[t] \in DeployLabels \/ "dep_pick" \in Range(stk[t])

\* C5: callers racing provide() on an absent entry serialize on the identity
\* lock and deploy() publishes once: no caller is in deploy() after the
\* version was published.
RaceDeploysOnce ==
    /\ \A t \in Threads : \A u \in Threads \ {t} :
           ~(InSection(t) /\ InSection(u))
    /\ deploys <= 1
    /\ \A t \in Threads : InDeploy(t) => deploys = 0

\* C6: when cleanup() returns and no deploy() completed after its removal,
\* the canonical path does not exist and get_available_versions() does not
\* contain the version.
CleanupRemoves ==
    \A t \in Threads :
        Returned(t, "cleanup") /\ ~since[t] =>
            ~canon.ex /\ VersionName \notin GetAvailableVersions

\* An artifact was published, and the second call, a cleanup(), has removed
\* it and returned.
CleanupRemovesWitness ==
    \E t \in Threads :
        /\ Returned(t, "cleanup") /\ ~since[t]
        /\ calls = 2 /\ deploys = 1
        /\ ~canon.ex /\ parent

\* C7: after cleanup() returns, the available flag and the activated flag of
\* the descriptor it was called on are both false.
CleanupClearsFlags ==
    \A t \in Threads :
        Returned(t, "cleanup") => ~avail[t] /\ ~activated[t]

AtomicPublication ==
    /\ canon.ex => canon.files = Files
    /\ VersionName \in GetAvailableVersions => canon.files = Files

\* Thread t holds the identity's lock: the RLock of its process and the OS
\* lock on the lock file.
HoldsLock(t) ==
    /\ rowner[ProcOf(t)] = t
    /\ flocked[ProcOf(t)]

\* C10: every step of provide(), cleanup() or deploy() that changes the
\* canonical directory or a staging directory is taken by a thread that
\* holds the identity's lock.
MutationUnderLock ==
    [][\A t \in Threads :
          pc'[t] # pc[t] /\ <<canon, temps>>' # <<canon, temps>>
          => HoldsLock(t)]_vars

\* Thread t is inside the with block of provide() and has called deploy():
\* it is acquiring the lock again in cleanup(), holds it twice, or has
\* released the inner acquisition and still holds the outer one.
Nested(t) == "prov_mark" \in Range(stk[t])

\* C11: a thread that holds the HybridLock acquires it again without blocking
\* and without touching the OS-level lock, and from the nested acquisition to
\* the outermost release the lock stays held against every other thread of
\* every process.
Reentrancy ==
    /\ [](\A t \in Threads :
            pc[t] = "lk_enter" /\ HoldsLock(t) => ENABLED LkEnter(t))
    /\ [][\A t \in Threads :
            pc[t] = "lk_enter" /\ HoldsLock(t) /\ pc'[t] \notin {pc[t], "dead"}
            => pc'[t] = Head(stk[t]) /\ lockFileVars' = lockFileVars]_vars
    /\ [](\A t \in Threads :
            Nested(t) => /\ HoldsLock(t)
                         /\ \A u \in Threads \ {t} : ~InSection(u))

\* C17: the OS-level lock is acquired only with the counter at 1 after 0 -> 1
\* and released, the unlink attempt following, only on 1 -> 0; the counter is
\* never negative and changes only under the RLock; a thread inside the
\* guarded section has the counter >= 1 and its process the OS-level lock.
LockDiscipline ==
    /\ [][\A p \in Procs :
            /\ ~flocked[p] /\ flocked'[p] => counter[p] = 1 /\ counter'[p] = 1
            /\ flocked[p] /\ ~flocked'[p] =>
                   /\ counter[p] = 1 /\ counter'[p] = 0
                   /\ \E t \in Threads : ProcOf(t) = p /\ pc'[t] = "lk_unlink"
            /\ counter'[p] # counter[p] => rowner'[p] # 0]_vars
    /\ [](\A p \in Procs : counter[p] >= 0)
    /\ [](\A t \in Threads :
            InSection(t) => counter[ProcOf(t)] >= 1 /\ flocked[ProcOf(t)])

\* C18: when file_lock.acquire() raises on the 0 -> 1 transition it is called
\* once more at once; when that call raises too the exception reaches the
\* caller and the guarded section is not entered; a thread enters the section
\* from acquire() only with the OS-level lock held.
AcquireRetriedOnce ==
    [][\A t \in Threads :
          /\ pc[t] = "lk_open" /\ pc'[t] \notin {"lk_open", "lk_try"}
             => pc'[t] = "lk_retry" /\ exc'[t] = "none"
          /\ pc[t] = "lk_retry" /\ pc'[t] \notin {"lk_retry", "lk_try"}
             => /\ pc'[t] = "ret" /\ exc'[t] = "AcquireError"
                /\ ~flocked'[ProcOf(t)]
          /\ pc[t] = "lk_try" /\ pc'[t] # "lk_try"
             => InSection(t)' /\ HoldsLock(t)']_vars

\* The one call so far met one raising acquire() and is inside the guarded
\* section with the OS-level lock: the retry succeeded.
AcquireRetriedWitness ==
    \E t \in Threads :
        calls = 1 /\ afails = 1 /\ InSection(t) /\ HoldsLock(t)

\* C19: after an acquisition that failed (acquire() raised twice) the counter
\* is back at 0 and the RLock is released, so a thread inside the guarded
\* section always has the OS-level lock and no thread that is not in a call
\* owns the RLock the others wait for.
AcquireFailureRestores ==
    /\ \A t \in Threads :
           pc[t] = "ret" /\ exc[t] = "AcquireError" =>
               counter[ProcOf(t)] = 0 /\ rowner[ProcOf(t)] # t
    /\ \A t \in Threads : InSection(t) => flocked[ProcOf(t)]
    /\ \A t \in Threads : pc[t] = "idle" => rowner[ProcOf(t)] # t

\* C20: when the staging name deploy() has drawn is taken, also when it was
\* taken between the is_dir() check and the mkdir(), deploy() draws another
\* name; it fails over the staging name only after TempAttempts draws, with
\* the last drawn path at hand.
StagingRetry ==
    /\ [][\A t \in Threads :
            /\ pc[t] = "dep_mkdir" /\ temps[tmp[t]].ex
            /\ pc'[t] \notin {"dep_mkdir", "dead"}
            => pc'[t] = "dep_pick" /\ exc'[t] = "none"]_vars
    /\ [](\A t \in Threads :
            pc[t] = "dep_except" /\ exc[t] = "Exception"
            => tries[t] = TempAttempts /\ tmp[t] # 0)


\* The packages whose activate() is on the call stack.
Activating == {frames[i].q : i \in {j \in 1..Len(frames) :
                                      frames[j].l \in {"ac", "ac_reqs", "ac_import"}}}

\* C12: activate() of a package imports each of its requirements, and theirs,
\* before it imports the package itself, and however many activate() calls on
\* a package return normally, the package has been imported exactly once.
ActivateOnce ==
    /\ [][\A q \in Pkgs :
            pkgs'[q].imports > pkgs[q].imports
            => \A r \in AllReqs(q) : pkgs[r].imports >= 1 /\ pkgs[r].activated]_vars
    /\ [](\A q \in Pkgs : pkgs[q].acts >= 1
                            => pkgs[q].imports = 1 /\ pkgs[q].activated)
    /\ [](\A q \in Pkgs : pkgs[q].imports <= 1)
ActivateOnceWitness ==
    /\ pkgs["app"].acts = 2
    /\ \A q \in Pkgs : pkgs[q].imports = 1

\* C13: when the import of activate(), or anything activate() runs before
\* it, raises, the packages whose activate() the exception leaves are not
\* marked activated, and an activate() call on a package that is not marked
\* goes on to provide() and the import instead of returning at once.
ActivateFailure ==
    /\ [][raised' # "none" => \A q \in Activating : ~pkgs'[q].activated]_vars
    /\ [][frames # <<>> /\ Head(frames).l = "ac" /\ frames' # frames
            /\ ~pkgs[Head(frames).q].activated
          => /\ Len(frames') = Len(frames) + 1
             /\ frames'[1] = Frame("pv", Head(frames).q)
             /\ frames'[2].l = "ac_reqs"]_vars
    /\ [](\A q \in Pkgs : pkgs[q].activated => pkgs[q].imports >= 1)
ActivateFailureWitness ==
    /\ pcall = [op |-> "activate", q |-> "app", st |-> "ret"]
    /\ raised = "ImportError"
    /\ pkgs["liba"].imports = 1
    /\ pkgs["libb"].imports = 1
    /\ ~pkgs["app"].activated
    /\ pkgCalls = 1

\* C14: a provide(), deploy() or cleanup() call on a package without a name
\* or version ends with an assertion failure, and no cache entry, neither
\* its own nor one of a requirement, has been locked, created or removed on
\* its behalf.
NamedBeforeCache ==
    pcall.op \in {"provide", "deploy", "cleanup"} /\ ~pkgs[pcall.q].named
    => /\ touched = {}
       /\ pcall.st = "ret" => raised = "AssertionError"

\* C15: a release is chosen, and its URL cached, only when exactly one
\* release is left after the source rule and the filter; with more than one
\* left the read fails with an assertion failure and caches nothing.
UniqueRelease ==
    /\ releaseInfo # NoRelease \/ archiveUrl # ""
       => Len(Candidates(releases)) = 1
    /\ Len(Candidates(releases)) > 1 /\ ~ENABLED ArchiveUrl
       => relExc = "AssertionError" /\ archiveUrl = ""

\* The archive of the example, in either order of its two entries.
ExampleArchive ==
    archive \in {<<PkgBinToolExe, PkgReadmeTxt>>, <<PkgReadmeTxt, PkgBinToolExe>>}
Extracted == pos = Len(archive) /\ arcExc = "none"

\* C16 as stated: with the map {"bin/": {"path": ""}} the archive of
\* pkg/bin/tool.exe and pkg/readme.txt leaves exactly tool.exe at the
\* destination root.
BinKeyExtractsTool ==
    ExampleArchive /\ extraction = <<Rule(BinKey, <<>>)>> /\ Extracted
    => dest = {ToolExe}

\* C16: keys are matched against the start of the whole entry name. With the
\* map {"pkg/bin/": {"path": ""}} the archive of pkg/bin/tool.exe and
\* pkg/readme.txt leaves exactly tool.exe at the destination root and skips
\* readme.txt; with the map {"bin/": {"path": ""}} no entry matches and
\* nothing is written.
PrefixExtractsTool ==
    ExampleArchive /\ Extracted
    => /\ extraction = <<Rule(PkgBinKey, <<>>)>> => dest = {ToolExe}
       /\ extraction = <<Rule(BinKey, <<>>)>> => dest = {}
PrefixExtractsWitness ==
    /\ archive = <<PkgBinToolExe, PkgReadmeTxt>>
    /\ extraction = <<Rule(PkgBinKey, <<>>)>>
    /\ Extracted
    /\ dest = {ToolExe}


\* k is a prefix of the entry name f, and r is what is left of f after it.
IsPrefixOf(k, f) == \E r \in {SubSeq(f, n, Len(f)) : n \in 1..(Len(f) + 1)} : f = k \o r
Rest(k, f) == CHOOSE r \in {SubSeq(f, n, Len(f)) : n \in 1..(Len(f) + 1)} : f = k \o r

\* i is the first rule of the map whose key is a prefix of f.
FirstMatch(f, i) ==
    /\ IsPrefixOf(extraction[i].key, f)
    /\ \A h \in 1..(i - 1) : ~IsPrefixOf(extraction[h].key, f)
Matches(f) == \E i \in 1..Len(extraction) : IsPrefixOf(extraction[i].key, f)

\* Where the map sends f: the path of its first matching rule, then f
\* without the key.
Target(f) ==
    LET i == CHOOSE j \in 1..Len(extraction) : FirstMatch(f, j) IN
    extraction[i].path \o Rest(extraction[i].key, f)

\* A destination the assertion of _deploy_to refuses.
Refused(d) == d = <<>> \/ d[1] = "/"

\* C27 as stated: when _deploy_to has ended, the files it wrote are the
\* targets of exactly the entries that some key is a prefix of.
WritesIffMatches ==
    ~ENABLED ExtractFile
    => dest = {Target(archive[i]) : i \in {j \in 1..Len(archive) : Matches(archive[j])}}

\* C27: the entries _deploy_to has gone through are written if and only if
\* some key is a prefix of their name, each to the path of the first such
\* key followed by the name without the key; an entry no key is a prefix of
\* is passed over without an error; and _deploy_to fails, with an assertion
\* failure, exactly at the first matching entry whose destination is empty
\* or begins with "/", writing neither it nor any entry after it.
WritesFirstMatch ==
    /\ dest = {Target(archive[i]) : i \in {j \in 1..pos : Matches(archive[j])}}
    /\ \A i \in 1..pos : Matches(archive[i]) => ~Refused(Target(archive[i]))
    /\ arcExc \in {"none", "AssertionError"}
    /\ arcExc = "AssertionError"
       => /\ pos < Len(archive)
          /\ Matches(archive[pos + 1])
          /\ Refused(Target(archive[pos + 1]))
    /\ pos < Len(archive) /\ arcExc = "none" => ENABLED ExtractFile
WritesFirstMatchWitness ==
    /\ extraction = <<Rule(PkgBinKey, <<>>), Rule(PkgKey, <<"d", "/">>)>>
    /\ archive = <<PkgBinToolExe, BinToolExe, PkgReadmeTxt>>
    /\ Extracted
    /\ dest = {ToolExe, <<"d", "/">> \o SubSeq(PkgReadmeTxt, 5, Len(PkgReadmeTxt))}

\* The directories of a path, one after the other.
RECURSIVE Split(_)
Split(d) ==
    IF \E i \in 1..Len(d) : d[i] = "/"
    THEN LET i == CHOOSE j \in 1..Len(d) :
                    d[j] = "/" /\ \A h \in 1..(j - 1) : d[h] # "/" IN
         <<SubSeq(d, 1, i - 1)>> \o Split(SubSeq(d, i + 1, Len(d)))
    ELSE <<d>>

\* Following the directories from n levels below the root leads above it.
RECURSIVE Climbs(_, _)
Climbs(segs, n) ==
    IF segs = <<>> THEN FALSE
    ELSE IF Head(segs) = <<".", ".">> THEN n = 0 \/ Climbs(Tail(segs), n - 1)
    ELSE IF Head(segs) \in {<<>>, <<".">>} THEN Climbs(Tail(segs), n)
    ELSE Climbs(Tail(segs), n + 1)

\* path / dest_path is outside path.
Escapes(d) == (d # <<>> /\ d[1] = "/") \/ Climbs(Split(d), 0)

\* C28: every file _deploy_to has written lies inside the directory it was
\* given.
WritesInsideRoot == \A d \in dest : ~Escapes(d)


\* C21: when the except clause of a deploy() call removes a staging
\* directory, it is the directory this call made with its own mkdir(), never
\* the staging directory of another deploy().
DeployRemovesOwn ==
    [][\A t \in Threads :
        /\ pc[t] = "dep_except" /\ pc'[t] # "dep_except"
        /\ tmp[t] # 0 /\ temps[tmp[t]].ex /\ ~temps'[tmp[t]].ex
        => temps[tmp[t]].by = t]_vars


\* C22: whenever provide() asks get_available_versions(), every name it
\* gets is the name of the version directory, fully installed: no staging
\* directory and no lock file.
ListsInstalledOnly ==
    \A t \in Threads :
        pc[t] = "prov_check"
        => \A n \in GetAvailableVersions :
              n = VersionName /\ canon.ex /\ canon.files = Files


\* How often the identity path k is in the sys.path of process p.
Occurs(p, k) == Cardinality({i \in 1..Len(spath[p]) : spath[p][i] = k})

\* C23: the identity path of a package is in the sys.path of a process at
\* most once, and once a provide() of the package has returned in the
\* process it is there.
SearchPathOnce ==
    /\ \A p \in Procs, k \in Keys : Occurs(p, k) <= 1
    /\ \A t \in Threads :
          wk[t].res = "returned" => Occurs(ProcOf(t), "lib") = 1


\* The RLock of the lock object t got from lock() is free or its own; the
\* lock file of its key is free.
CanEnter(t) == hl[ProcOf(t)][wk[t].got].owner \in {0, t}
CanFile(t) == fh[wk[t].key] = 0

\* A thread waiting for the RLock or the lock file of its key is not held up
\* by what a thread does that works on another key.
KeysIndependent ==
    [][\A t \in Threads, u \in Threads :
        /\ u # t
        /\ wk'[u] # wk[u] /\ wk[u].key # wk[t].key /\ wk'[u].key # wk[t].key
        => /\ wk[t].pc = "hl_enter" => (CanEnter(t)' <=> CanEnter(t))
           /\ wk[t].pc \in {"hl_file", "hl_retry"}
              => (CanFile(t)' <=> CanFile(t))]_vars

\* C24 as stated: locks are per key, and a thread in `with _locks[None]`
\* is in lock() and neither inside a `with self.lock` block nor owner of a
\* HybridLock.
MutexNeverWithLock ==
    /\ KeysIndependent
    /\ [](\A t \in Threads :
            regMutex[ProcOf(t)] = t
            => /\ wk[t].pc = "rg_insert"
               /\ wk[t].nest = 0
               /\ \A i \in InstIds : hl[ProcOf(t)][i].owner # t)

\* C24: locks are per key: what a thread does on one key neither blocks nor
\* unblocks a thread acquiring the lock of another key, and different keys
\* have different lock objects. _locks[None] is held only for the lookup
\* and insertion in lock(), never while its holder waits for a HybridLock;
\* a thread inside `with self.lock` does take it, for the lookup of the
\* nested `with self.lock` of cleanup().
PerKeyLocks ==
    /\ KeysIndependent
    /\ [](\A p \in Procs : registry[p]["lib"] # 0
                             => registry[p]["lib"] # registry[p]["app"])
    /\ [](\A t \in Threads : regMutex[ProcOf(t)] = t => wk[t].pc = "rg_insert")
PerKeyLocksWitness ==
    /\ wk[1].pc = "body" /\ wk[1].key = "lib"
    /\ wk[2].pc = "rg_insert" /\ wk[2].key = "app" /\ wk[2].nest = 1
    /\ regMutex[1] = 2

\* C25: in a process every lock() for a key returns one and the same
\* HybridLock: the registry keeps the object it has for a key, constructs
\* one object per key, and returns the object it has.
RegistrySingleton ==
    /\ [][\A p \in Procs, k \in Keys :
            registry[p][k] # 0 => registry'[p][k] = registry[p][k]]_vars
    /\ [](\A p \in Procs, k \in Keys : Cardinality(given[p][k]) <= 1)
    /\ [](\A p \in Procs :
            insts[p] = Cardinality({k \in Keys : registry[p][k] # 0}))
    /\ [](\A t \in Threads :
            wk[t].got # 0 => wk[t].got = registry[ProcOf(t)][wk[t].key])
RegistrySingletonWitness ==
    /\ wk[1].key = "lib" /\ wk[2].key = "lib"
    /\ wk[1].pc = "body" /\ wk[2].pc = "hl_enter"
    /\ wk[1].got = wk[2].got
    /\ insts[1] = 1

\* The keys whose RLock t owns.
OwnedKeys(t) ==
    {k \in Keys : /\ registry[ProcOf(t)][k] # 0
                  /\ hl[ProcOf(t)][registry[ProcOf(t)][k]].owner = t}

\* C26: no thread owns the locks of two identity paths at a time, and every
\* provide() or activate() call that has begun returns or raises.
NoDeadlock ==
    /\ [](\A t \in Threads : Cardinality(OwnedKeys(t)) <= 1)
    /\ \A t \in Threads : wk[t].pc # "idle" ~> wk[t].pc = "idle"

====
